---- MODULE Spec2Model ----
(***************************************************************************)
(* Persistence and backup core of pak-kharcha-tracker-insights:            *)
(*   CSVDataManager  (src/src/lib/ai-service.ts, lines 307-785)            *)
(*   BackupManager   (src/src/lib/backup-manager.tsx)                      *)
(*                                                                         *)
(* Text is a sequence of units.  A unit is a TLA+ string standing for one  *)
(* character ("," "\"" "\n" " " "#", a digit, a letter) or for an          *)
(* indivisible word that holds none of the characters the encoder and the  *)
(* decoder look at (a category name, a date, a header phrase).             *)
(***************************************************************************)
EXTENDS Integers, Sequences, FiniteSets, Bags, TLC

VARIABLES
  now,          \* the clock (Date.now()), in ticks
  csv,          \* localStorage["csv-<file>"]          : dataset text or NULL
  csvBackup,    \* localStorage["csv-backup-<file>"]   : previous dataset text or NULL
  csvMeta,      \* localStorage["csv-metadata-<file>"] : metadata record or NULL
  backups,      \* localStorage["backup-<user>-<id>"]  : function <<user, id>> -> snapshot
  schedules,    \* localStorage["backup-schedule-<user>"] : schedule record or NULL
  timers,       \* pending setTimeout callbacks: a bag of <<user, due>>
  last,         \* the most recent call and what it returned
  calls,        \* how many operations the session has invoked
  context       \* the expenses state of ExpenseProvider

vars == <<now, csv, csvBackup, csvMeta, backups, schedules, timers, last, calls, context>>

-----------------------------------------------------------------------------
(* Characters *)
COMMA == ","
QUOTE == "\""
NL    == "\n"
SP    == " "
HASH  == "#"

(* String.prototype.trim: strips whitespace at both ends *)
IsWs(c) == c \in {SP, NL}

RECURSIVE TrimLeft(_)
TrimLeft(s) == IF s # <<>> /\ IsWs(Head(s)) THEN TrimLeft(Tail(s)) ELSE s

RECURSIVE TrimRight(_)
TrimRight(s) ==
  IF s # <<>> /\ IsWs(s[Len(s)]) THEN TrimRight(SubSeq(s, 1, Len(s) - 1)) ELSE s

Trim(s) == TrimRight(TrimLeft(s))

(* String.prototype.includes *)
Includes(s, pat) ==
  \E i \in 1..(Len(s) - Len(pat) + 1) : SubSeq(s, i, i + Len(pat) - 1) = pat

HasUnit(s, c) == \E i \in 1..Len(s) : s[i] = c

(* String.prototype.split('\n'): the stretches between consecutive newlines *)
Split(s) ==
  LET breaks == {i \in 1..Len(s) : s[i] = NL}
      nth(k) == IF k = 0 THEN 0
                ELSE IF k > Cardinality(breaks) THEN Len(s) + 1
                ELSE CHOOSE p \in breaks : Cardinality({q \in breaks : q < p}) = k - 1
  IN [k \in 1..(Cardinality(breaks) + 1) |-> SubSeq(s, nth(k - 1) + 1, nth(k) - 1)]

(* Array.prototype.join *)
RECURSIVE Join(_, _)
Join(parts, sep) ==
  IF parts = <<>> THEN <<>>
  ELSE IF Len(parts) = 1 THEN parts[1]
  ELSE parts[1] \o sep \o Join(Tail(parts), sep)

(* Number.prototype.toString and parseFloat, on integers *)
MaxAmount == 10000000
NaN == 0 - (MaxAmount + MaxAmount)

Digits == <<"0", "1", "2", "3", "4", "5", "6", "7", "8", "9">>
IsDigit(c) == \E d \in 1..Len(Digits) : Digits[d] = c
DigitVal(c) == (CHOOSE d \in 1..Len(Digits) : Digits[d] = c) - 1

RECURSIVE NatToText(_)
NatToText(n) ==
  IF n < Len(Digits) THEN <<Digits[n + 1]>>
  ELSE NatToText(n \div Len(Digits)) \o <<Digits[(n % Len(Digits)) + 1]>>

NumToText(n) ==
  IF n = NaN THEN <<"NaN">>
  ELSE IF n < 0 THEN <<"-">> \o NatToText(0 - n)
  ELSE NatToText(n)

RECURSIVE ParseDigits(_, _, _, _)
ParseDigits(s, i, acc, seen) ==
  IF i <= Len(s) /\ IsDigit(s[i])
  THEN ParseDigits(s, i + 1, acc * Len(Digits) + DigitVal(s[i]), TRUE)
  ELSE IF seen THEN acc ELSE NaN

ParseFloat(str) ==
  LET s == TrimLeft(str) IN
  IF s # <<>> /\ s[1] = "-"
  THEN LET v == ParseDigits(s, 2, 0, FALSE) IN IF v = NaN THEN NaN ELSE 0 - v
  ELSE IF s # <<>> /\ s[1] = "+" THEN ParseDigits(s, 2, 0, FALSE)
  ELSE ParseDigits(s, 1, 0, FALSE)

-----------------------------------------------------------------------------
(* Users of the static credential list and their dataset file names *)
Users == {"Saad", "Areeba"}

toLowerCase(username) ==
  CASE username = "Saad" -> "saad"
    [] username = "Areeba" -> "areeba"
    [] OTHER -> username

getFileName(username) == toLowerCase(username)

FileNames == {getFileName(u) : u \in Users}

(* A storage slot holds <<>> (getItem returns null) or <<value>> *)
None == <<>>
Some(v) == <<v>>

(* Date.prototype.toISOString: one word per clock value *)
toISOString(t) == <<"T">> \o NatToText(t)

(* new Date(string).getTime(): the dates the model uses *)
PastDate == <<"2024-01-01">>
FutureDate == <<"2999-01-01">>
BadDate == <<"someday">>

-----------------------------------------------------------------------------
(* CSVDataManager *)
CSV_VERSION == "2.0"

validCategories ==
  { <<"Food & Groceries">>, <<"Transportation">>, <<"Utilities">>, <<"Housing">>,
    <<"Healthcare">>, <<"Education">>, <<"Entertainment">>, <<"Shopping">>,
    <<"Charity/Zakat">>, <<"Mobile/Internet">>, <<"Family Support">>,
    <<"Debt Payment">>, <<"Miscellaneous">> }

MinDescription == 2
MaxDescription == 200

(* The clock value a date string parses to; NaN when it does not parse.     *)
(* FutureDate lies past every clock value a behaviour reaches (see Tick).   *)
MaxTime == 7

DateGetTime(date) ==
  CASE date = PastDate -> 0
    [] date = FutureDate -> MaxTime + 1
    [] OTHER -> NaN

(* CSVDataManager.validateExpense: the list of error messages *)
validateExpense(expense, t) ==
  (IF expense.id = <<>> THEN <<"Invalid or missing ID">> ELSE <<>>)
  \o (IF expense.amount # NaN /\ (expense.amount <= 0 \/ expense.amount > MaxAmount)
      THEN <<"Amount must be a positive number between 1 and 10,000,000">> ELSE <<>>)
  \o (IF expense.category = <<>> \/ expense.category \notin validCategories
      THEN <<"Invalid category">> ELSE <<>>)
  \o (IF expense.description = <<>> \/ Len(expense.description) < MinDescription
      THEN <<"Description must be at least 2 characters long">> ELSE <<>>)
  \o (IF expense.description # <<>> /\ Len(expense.description) > MaxDescription
      THEN <<"Description cannot exceed 200 characters">> ELSE <<>>)
  \o (IF expense.date = <<>> THEN <<"Invalid or missing date">>
      ELSE IF DateGetTime(expense.date) = NaN THEN <<"Invalid date format">>
      ELSE IF DateGetTime(expense.date) > t THEN <<"Date cannot be in the future">>
      ELSE <<>>)

(* escapeCSVField of expenseToCSVRow *)
RECURSIVE DoubleQuotes(_)
DoubleQuotes(s) ==
  IF s = <<>> THEN <<>>
  ELSE (IF Head(s) = QUOTE THEN <<QUOTE, QUOTE>> ELSE <<Head(s)>>) \o DoubleQuotes(Tail(s))

escapeCSVField(field) ==
  IF HasUnit(field, COMMA) \/ HasUnit(field, QUOTE) \/ HasUnit(field, NL)
  THEN <<QUOTE>> \o DoubleQuotes(field) \o <<QUOTE>>
  ELSE field

expenseToCSVRow(expense) ==
  Join(<< escapeCSVField(expense.id),
          NumToText(expense.amount),
          escapeCSVField(expense.category),
          escapeCSVField(expense.description),
          escapeCSVField(expense.date) >>, <<COMMA>>)

(* The quote-aware tokenizer of csvRowToExpense (lines 392-421) *)
RECURSIVE ParseFields(_, _, _, _, _)
ParseFields(row, i, current, inQuotes, fields) ==
  IF i > Len(row) THEN Append(fields, Trim(current))
  ELSE IF row[i] = QUOTE
    THEN IF inQuotes /\ i + 1 <= Len(row) /\ row[i + 1] = QUOTE
         THEN ParseFields(row, i + 2, Append(current, QUOTE), inQuotes, fields)
         ELSE ParseFields(row, i + 1, current, ~inQuotes, fields)
  ELSE IF row[i] = COMMA /\ ~inQuotes
    THEN ParseFields(row, i + 1, <<>>, inQuotes, Append(fields, Trim(current)))
  ELSE ParseFields(row, i + 1, Append(current, row[i]), inQuotes, fields)

Tokenize(row) == ParseFields(row, 1, <<>>, FALSE, <<>>)

(* crypto.randomUUID(): a fresh id; salt tells one call of the decoder from another *)
randomUUID(salt, rowIndex) == <<"uuid", salt>> \o NatToText(rowIndex)

NoExpense == <<>>

RowError(rowIndex, msg) == [row |-> rowIndex, msg |-> msg]

REQUIRED_FIELDS == 5

(* The candidate Record of a tokenized row (lines 428-442) *)
Candidate(fields, rowIndex, salt) ==
  [ id |-> IF fields[1] = <<>> THEN randomUUID(salt, rowIndex) ELSE fields[1],
    amount |-> ParseFloat(fields[2]),
    category |-> fields[3],
    description |-> fields[4],
    date |-> fields[5] ]

(* CSVDataManager.csvRowToExpense: [expense |-> <<>> or <<Record>>, errors] *)
csvRowToExpense(row, rowIndex, salt, t) ==
  LET fields == Tokenize(row) IN
  IF Len(fields) # REQUIRED_FIELDS
  THEN [expense |-> NoExpense, errors |-> <<RowError(rowIndex, "Expected 5 fields")>>]
  ELSE LET expense == Candidate(fields, rowIndex, salt)
           amountErrors == IF expense.amount = NaN
                           THEN <<RowError(rowIndex, "Invalid amount")>> ELSE <<>>
           validation == validateExpense(expense, t)
       IN IF validation # <<>>
          THEN [expense |-> NoExpense,
                errors |-> amountErrors \o <<RowError(rowIndex, "validation")>>]
          ELSE [expense |-> <<expense>>, errors |-> <<>>]

(* CSVDataManager.calculateChecksum: hash = hash * 31 + charCode, wrapped to a   *)
(* signed 32-bit integer after every character; kept as two 16-bit halves so     *)
(* that no intermediate value leaves the range of TLC integers.                  *)
Units ==
  << NL, SP, QUOTE, HASH, COMMA, "-", "+", "0", "1", "2", "3", "4", "5", "6", "7", "8",
     "9", "a", "b", "c", "x", "T", "NaN", "uuid", "A", "B", "id", "amount", "category",
     "description", "date", "Pak-Kharcha Expense Data Export", "Version:", "User:",
     "Export Date:", "Total Expenses:", "2.0", "Saad", "Areeba",
     "2024-01-01", "2999-01-01", "someday", "Gambling",
     "Food & Groceries", "Transportation", "Utilities", "Housing", "Healthcare",
     "Education", "Entertainment", "Shopping", "Charity/Zakat", "Mobile/Internet",
     "Family Support", "Debt Payment", "Miscellaneous",
     "{", "}", "[", "]", ":", "\\", "n", "null" >>

charCode(c) == CHOOSE i \in 1..Len(Units) : Units[i] = c

Half == 2 ^ 16

Mul32(x, y) ==
  LET lowProduct ==            \* x[2] * y[2] as <<high half, low half>>
        LET a == (x[2] \div 256) * y[2]
            b == (x[2] % 256) * y[2]
            mid == (a % 256) * 256 + b
        IN <<((a \div 256) + (mid \div Half)) % Half, mid % Half>>
      cross == ((x[1] * (y[2] % 256)) + ((x[1] * (y[2] \div 256)) % 256) * 256
                + (x[2] % 256) * y[1] + (((x[2] \div 256) * y[1]) % 256) * 256) % Half
  IN <<(lowProduct[1] + cross) % Half, lowProduct[2]>>

Add32(x, y) ==
  <<(x[1] + y[1] + ((x[2] + y[2]) \div Half)) % Half, (x[2] + y[2]) % Half>>

(* <<hash of content[from..to] started from 0, 31 ^ length>>, both modulo 2^32 *)
RECURSIVE HashRange(_, _, _)
HashRange(content, from, to) ==
  IF from > to THEN [hash |-> <<0, 0>>, power |-> <<0, 1>>]
  ELSE IF from = to THEN [hash |-> <<0, charCode(content[from])>>, power |-> <<0, 31>>]
  ELSE LET mid == (from + to) \div 2
           left == HashRange(content, from, mid)
           right == HashRange(content, mid + 1, to)
       IN [hash |-> Add32(Mul32(left.hash, right.power), right.hash),
           power |-> Mul32(left.power, right.power)]

ToInt32(halves) ==
  IF halves[1] >= Half \div 2
  THEN (halves[1] - Half) * Half + halves[2]
  ELSE halves[1] * Half + halves[2]

calculateChecksum(content) == ToInt32(HashRange(content, 1, Len(content)).hash)

(* The text saveExpenses builds (lines 466-478) *)
csvHeaderLine == <<"id", COMMA, "amount", COMMA, "category", COMMA, "description", COMMA, "date">>

csvHeader(username, timestamp, count) ==
  Join(<< <<HASH, SP, "Pak-Kharcha Expense Data Export">>,
          <<HASH, SP, "Version:", SP, CSV_VERSION>>,
          <<HASH, SP, "User:", SP, username>>,
          <<HASH, SP, "Export Date:", SP>> \o timestamp,
          <<HASH, SP, "Total Expenses:", SP>> \o NatToText(count),
          <<HASH>>,
          csvHeaderLine >>, <<NL>>) \o <<NL>>

csvContent(username, expenses, timestamp) ==
  csvHeader(username, timestamp, Len(expenses))
  \o Join([i \in 1..Len(expenses) |-> expenseToCSVRow(expenses[i])], <<NL>>)

csvMetadata(username, expenses, timestamp) ==
  [ version |-> CSV_VERSION,
    username |-> username,
    lastSaved |-> timestamp,
    expenseCount |-> Len(expenses),
    checksum |-> calculateChecksum(csvContent(username, expenses, timestamp)) ]

(* The decoder of loadExpenses (lines 533-562) on a stored text *)
RECURSIVE FindHeader(_, _)
FindHeader(lines, i) ==
  IF i > Len(lines) THEN 0
  ELSE IF Includes(lines[i], <<"id", COMMA, "amount", COMMA, "category">>) THEN i
  ELSE FindHeader(lines, i + 1)

IsDataLine(line) == Trim(line) # <<>> /\ Head(Trim(line)) # HASH

RECURSIVE DecodeRows(_, _, _, _, _)
DecodeRows(lines, i, salt, t, acc) ==
  IF i > Len(lines) THEN acc
  ELSE IF IsDataLine(lines[i])
    THEN LET result == csvRowToExpense(Trim(lines[i]), i, salt, t)
         IN DecodeRows(lines, i + 1, salt, t,
                       [expenses |-> acc.expenses \o result.expense,
                        errors |-> acc.errors \o result.errors])
  ELSE DecodeRows(lines, i + 1, salt, t, acc)

Decode(content, salt, t) ==
  LET lines == Split(content)
  IN DecodeRows(lines, FindHeader(lines, 1) + 1, salt, t,
                [expenses |-> <<>>, errors |-> <<>>])

-----------------------------------------------------------------------------
(* BackupManager *)
BACKUP_VERSION == "1.0"
BACKUP_FORMAT == "pak-kharcha-backup"
KEEP_LOCAL == 5

(* JSON.stringify(expenses), the text the snapshot checksum is taken over *)
RECURSIVE JsonEscape(_)
JsonEscape(s) ==
  IF s = <<>> THEN <<>>
  ELSE (CASE Head(s) = QUOTE -> <<"\\", QUOTE>>
          [] Head(s) = NL -> <<"\\", "n">>
          [] OTHER -> <<Head(s)>>) \o JsonEscape(Tail(s))

JsonString(s) == <<QUOTE>> \o JsonEscape(s) \o <<QUOTE>>

NullAmount == NaN - 1

JsonNumber(n) == IF n \in {NaN, NullAmount} THEN <<"null">> ELSE NumToText(n)

JsonExpense(e) ==
  <<"{">> \o JsonString(<<"id">>) \o <<":">> \o JsonString(e.id)
  \o <<COMMA>> \o JsonString(<<"amount">>) \o <<":">> \o JsonNumber(e.amount)
  \o <<COMMA>> \o JsonString(<<"category">>) \o <<":">> \o JsonString(e.category)
  \o <<COMMA>> \o JsonString(<<"description">>) \o <<":">> \o JsonString(e.description)
  \o <<COMMA>> \o JsonString(<<"date">>) \o <<":">> \o JsonString(e.date) \o <<"}">>

JSONstringify(expenses) ==
  <<"[">> \o Join([i \in 1..Len(expenses) |-> JsonExpense(expenses[i])], <<COMMA>>) \o <<"]">>

(* A JSON round trip that loses every number *)
JsonRoundTripLossy(expenses) ==
  [i \in 1..Len(expenses) |-> [expenses[i] EXCEPT !.amount = NullAmount]]

(* JSON.parse(JSON.stringify(expenses)): text and finite numbers come back as *)
(* they were, NaN comes back as null                                          *)
JsonRoundTrip(expenses) ==
  [i \in 1..Len(expenses) |->
     [expenses[i] EXCEPT !.amount = IF @ = NaN THEN NullAmount ELSE @]]

(* new Date(createdAt).getTime() of a toISOString text *)
getTime(iso) == IF iso # <<>> /\ Head(iso) = "T" THEN ParseDigits(iso, 2, 0, FALSE) ELSE NaN

(* Array.prototype.sort on date strings: code-unit order of the model's dates *)
DateRank(date) ==
  CASE date = PastDate -> 1
    [] date = FutureDate -> 2
    [] OTHER -> 3

RECURSIVE Sum(_)
Sum(expenses) ==
  IF expenses = <<>> THEN 0
  ELSE LET rest == Sum(Tail(expenses))
       IN IF rest = NaN \/ Head(expenses).amount = NaN THEN NaN
          ELSE Head(expenses).amount + rest

RECURSIVE Distinct(_, _)
Distinct(items, seen) ==
  IF items = <<>> THEN seen
  ELSE Distinct(Tail(items),
                IF \E i \in 1..Len(seen) : seen[i] = Head(items) THEN seen
                ELSE Append(seen, Head(items)))

(* The metadata createBackup derives (lines 44-60); expenses is non-empty *)
BackupMetadata(username, expenses, createdAt) ==
  LET dates == {expenses[i].date : i \in 1..Len(expenses)} IN
  [ version |-> BACKUP_VERSION,
    username |-> username,
    createdAt |-> createdAt,
    expenseCount |-> Len(expenses),
    totalAmount |-> Sum(expenses),
    dateRange |->
      [ earliest |-> CHOOSE d \in dates : \A e \in dates : DateRank(d) <= DateRank(e),
        latest |-> CHOOSE d \in dates : \A e \in dates : DateRank(d) >= DateRank(e) ],
    categories |-> Distinct([i \in 1..Len(expenses) |-> expenses[i].category], <<>>),
    checksum |-> calculateChecksum(JSONstringify(expenses)) ]

(* The BackupFile createBackup builds (lines 62-66), as it reads back from JSON *)
BackupFile(username, expenses, createdAt) ==
  [ metadata |-> Some(BackupMetadata(username, expenses, createdAt)),
    expenses |-> Some(JsonRoundTrip(expenses)),
    format |-> Some(BACKUP_FORMAT) ]

(* BackupManager.validateExpense: TRUE when it does not throw *)
restoreValidates(expense) ==
  /\ expense.id # <<>>
  /\ expense.amount # NullAmount
  /\ (expense.amount = NaN \/ expense.amount > 0)
  /\ expense.category # <<>>
  /\ expense.description # <<>>
  /\ expense.date # <<>>
  /\ DateGetTime(expense.date) # NaN

-----------------------------------------------------------------------------
(* Storage *)
hasData(f) == csv[f] # None /\ csv[f][1] # <<>>

SaveFaults == {"none", "backupKey", "storageKey", "metadataKey"}

(* expense.amount.toString() throws on a null amount *)
rowsEncodable(expenses) == \A i \in 1..Len(expenses) : expenses[i].amount # NullAmount

(* CSVDataManager.saveExpenses (lines 457-504): its three writes, of which       *)
(* `fault` names the one localStorage.setItem refuses (quota), if any            *)
saveExpenses(username, expenses, fault) ==
  LET f == getFileName(username)
      timestamp == toISOString(now)
  IN /\ fault = "backupKey" => hasData(f)
     /\ csvBackup' = IF rowsEncodable(expenses) /\ hasData(f) /\ fault # "backupKey"
                     THEN [csvBackup EXCEPT ![f] = csv[f]] ELSE csvBackup
     /\ csv' = IF rowsEncodable(expenses) /\ fault \in {"none", "metadataKey"}
               THEN [csv EXCEPT ![f] = Some(csvContent(username, expenses, timestamp))]
               ELSE csv
     /\ csvMeta' = IF rowsEncodable(expenses) /\ fault = "none"
                   THEN [csvMeta EXCEPT ![f] = Some(csvMetadata(username, expenses, timestamp))]
                   ELSE csvMeta

saveReturns(expenses, fault) == rowsEncodable(expenses) /\ fault = "none"

(* A stored metadata text that JSON.parse refuses *)
unparsableMetadata == [unparsable |-> TRUE]

(* The integrity check of loadExpenses (lines 519-531): what it logs.  A       *)
(* checksum of 0 is falsy and is not compared.                                 *)
loadWarnings(content, metadata) ==
  IF metadata = None THEN <<>>
  ELSE IF metadata[1] = unparsableMetadata THEN <<"Failed to verify data integrity">>
  ELSE IF /\ "checksum" \in DOMAIN metadata[1]
          /\ metadata[1].checksum # 0
          /\ metadata[1].checksum # calculateChecksum(content)
    THEN <<"Data integrity check failed - checksum mismatch">>
  ELSE <<>>

(* loadExpenses that throws where lines 526-527 and 529-530 warn *)
loadStoredStrict(content, metadata, salt, t) ==
  IF content = None \/ content[1] = <<>> THEN [expenses |-> <<>>, errors |-> <<>>]
  ELSE IF loadWarnings(content[1], metadata) # <<>>
    THEN [expenses |-> <<>>, errors |-> loadWarnings(content[1], metadata)]
  ELSE Decode(content[1], salt, t)

(* loadExpenses (lines 506-567) on the two stored texts it reads: the metadata *)
(* is only compared and logged (loadWarnings), the Records come from the       *)
(* dataset text                                                                *)
loadStored(content, metadata, salt, t) ==
  IF content = None \/ content[1] = <<>> THEN [expenses |-> <<>>, errors |-> <<>>]
  ELSE Decode(content[1], salt, t)

(* CSVDataManager.loadExpenses (lines 506-567) *)
loadExpenses(username, salt) ==
  LET f == getFileName(username)
  IN loadStored(csv[f], csvMeta[f], salt, now)

-----------------------------------------------------------------------------
(* Operations.  `last` records the call that was made and what it returned. *)

(* The clock advances *)
Tick(limit) ==
  /\ now < limit
  /\ now' = now + 1
  /\ UNCHANGED <<csv, csvBackup, csvMeta, backups, schedules, timers, last>>

(* save(owner, records) *)
SaveExpenses(username, expenses, fault) ==
  /\ saveExpenses(username, expenses, fault)
  /\ last' = [ op |-> "saveExpenses", user |-> username, arg |-> expenses,
               fault |-> fault,
               out |-> [ok |-> saveReturns(expenses, fault)] ]
  /\ UNCHANGED <<now, backups, schedules, timers>>

(* What saveExpenses (lines 457-499) leaves under the three keys of the user's  *)
(* file when none of its writes is refused: `stored` is what the keys held     *)
written(stored, username, expenses, timestamp) ==
  [ csv |-> Some(csvContent(username, expenses, timestamp)),
    csvBackup |-> IF stored.csv # None /\ stored.csv[1] # <<>> THEN stored.csv
                  ELSE stored.csvBackup,
    csvMeta |-> Some(csvMetadata(username, expenses, timestamp)) ]

(* ExpenseProvider.loadUserExpenses (ExpenseContext.tsx lines 65-77), run when *)
(* the user logs in and by refreshData                                         *)
LoadUserExpenses(username, salt) ==
  /\ context' = loadExpenses(username, salt).expenses
  /\ last' = [op |-> "loadUserExpenses", user |-> username]
  /\ UNCHANGED <<now, csv, csvBackup, csvMeta, backups, schedules, timers>>

(* ExpenseProvider.addExpense (lines 93-113) called once by an event handler   *)
(* (Dashboard line 486, Expenses lines 31 and 213): `expenses` is the state of *)
(* the render the handler belongs to; a save that throws is caught by          *)
(* saveUserExpenses (lines 87-90)                                              *)
AddExpense(username, expense, salt, fault) ==
  LET newExpense == [id |-> randomUUID(salt, Len(context))] @@ expense
      newExpenses == Append(context, newExpense)
  IN /\ context' = newExpenses
     /\ saveExpenses(username, newExpenses, fault)
     /\ last' = [ op |-> "addExpense", user |-> username, added |-> <<newExpense>>,
                  fault |-> fault ]
     /\ UNCHANGED <<now, backups, schedules, timers>>

(* Settings.handleAddSampleData (part_004 lines 36-47): addExpense is called   *)
(* for each sample from one render, so every call reads the same `expenses`    *)
(* (ExpenseContext.tsx line 105); each call reaches its localStorage writes    *)
(* before it first suspends, so the saves happen in the order of the calls     *)
HandleAddSampleData(username, sampleData, salt) ==
  LET f == getFileName(username)
      timestamp == toISOString(now)
      newExpense(i) == [id |-> randomUUID(salt, Len(context) + i)] @@ sampleData[i]
      newExpenses(i) == Append(context, newExpense(i))
      stored == [csv |-> csv[f], csvBackup |-> csvBackup[f], csvMeta |-> csvMeta[f]]
      first == written(stored, username, newExpenses(1), timestamp)
      second == written(first, username, newExpenses(2), timestamp)
  IN /\ Len(sampleData) = 2
     /\ context' = newExpenses(2)
     /\ csv' = [csv EXCEPT ![f] = second.csv]
     /\ csvBackup' = [csvBackup EXCEPT ![f] = second.csvBackup]
     /\ csvMeta' = [csvMeta EXCEPT ![f] = second.csvMeta]
     /\ last' = [ op |-> "handleAddSampleData", user |-> username,
                  added |-> <<newExpense(1), newExpense(2)>> ]
     /\ UNCHANGED <<now, backups, schedules, timers>>

(* The header search of importUserData (lines 628-635): 0 when no line has it *)
RECURSIVE FindImportHeader(_, _)
FindImportHeader(lines, i) ==
  IF i > Len(lines) THEN 0
  ELSE IF /\ HasUnit(Trim(lines[i]), "id")
          /\ HasUnit(Trim(lines[i]), "amount")
          /\ HasUnit(Trim(lines[i]), "category") THEN i
  ELSE FindImportHeader(lines, i + 1)

(* isDuplicate that takes every row for one seen before *)
isDuplicateAlways(expenses, candidate) == TRUE

isDuplicate(expenses, candidate) ==
  \E i \in 1..Len(expenses) :
    \/ expenses[i].id = candidate.id
    \/ /\ expenses[i].amount = candidate.amount
       /\ candidate.amount # NaN
       /\ expenses[i].category = candidate.category
       /\ expenses[i].description = candidate.description
       /\ expenses[i].date = candidate.date

(* The row loop of importUserData (lines 641-668) *)
RECURSIVE ImportRows(_, _, _, _, _)
ImportRows(lines, i, salt, t, acc) ==
  IF i > Len(lines) THEN acc
  ELSE IF ~IsDataLine(lines[i]) THEN ImportRows(lines, i + 1, salt, t, acc)
  ELSE LET result == csvRowToExpense(Trim(lines[i]), i, salt, t)
       IN ImportRows(lines, i + 1, salt, t,
            IF result.expense = NoExpense
            THEN [acc EXCEPT !.skippedCount = @ + 1, !.errors = @ \o result.errors]
            ELSE IF isDuplicate(acc.expenses, result.expense[1])
            THEN [acc EXCEPT !.skippedCount = @ + 1,
                             !.errors = Append(@, RowError(i, "Duplicate expense skipped"))]
            ELSE [acc EXCEPT !.expenses = @ \o result.expense,
                             !.importedCount = @ + 1])

(* The size limit of line 611, in megabytes *)
MAX_FILE_MB == 5

ImportFailed(message) ==
  [success |-> FALSE, importedCount |-> 0, skippedCount |-> 0,
   errors |-> <<RowError(0, message)>>]

(* importFromFile(owner, file): CSVDataManager.importUserData (lines 605-692) *)
ImportUserData(username, file, salt, fault) ==
  LET lines == Split(file.content)
      start == FindImportHeader(lines, 1)
      rows == ImportRows(lines, start + 1, salt, now,
                [expenses |-> <<>>, importedCount |-> 0, skippedCount |-> 0,
                 errors |-> <<>>])
      rejected ==
        IF file.ext # "csv" THEN <<"File must be a CSV file">>
        ELSE IF file.size > MAX_FILE_MB
          THEN <<"File size too large. Maximum size is 5MB.">>
        ELSE IF Trim(file.content) = <<>> THEN <<"File is empty">>
        ELSE IF start = 0 THEN <<"Invalid CSV format: Header row not found">>
        ELSE IF rows.expenses = <<>> THEN <<"No valid expenses found in the file">>
        ELSE <<>>
  IN /\ IF rejected # <<>>
        THEN /\ fault = "none"
             /\ UNCHANGED <<csv, csvBackup, csvMeta>>
        ELSE saveExpenses(username, rows.expenses, fault)
     /\ last' = [ op |-> "importUserData", user |-> username, arg |-> file,
                  fault |-> fault,
                  out |-> IF rejected # <<>> THEN ImportFailed(rejected[1])
                          ELSE IF ~saveReturns(rows.expenses, fault)
                          THEN ImportFailed("Failed to save data")
                          ELSE [ success |-> TRUE,
                                 importedCount |-> rows.importedCount,
                                 skippedCount |-> rows.skippedCount,
                                 errors |-> rows.errors ] ]
     /\ UNCHANGED <<now, backups, schedules, timers>>

(* localStorage keys "backup-<username>-<backupId>" *)
backupKey(username, backupId) == <<username, backupId>>

localKeys(username) == {k \in DOMAIN backups : k[1] = username}

removeItems(store, keys) == [k \in DOMAIN store \ keys |-> store[k]]

(* BackupManager.getLocalBackups (lines 159-185): the keys whose entry is listed *)
listedKeys(store, username) ==
  {k \in DOMAIN store : k[1] = username /\ store[k].json /\ store[k].metadata # None}

createdAtOf(store, k) == getTime(store[k].metadata[1].createdAt)

(* What slice(5) of the listing sorted by createdAt, newest first, may hold: *)
(* entries of equal createdAt come in the store's own key order              *)
oldBackupChoices(store, username) ==
  LET listed == listedKeys(store, username) IN
  IF Cardinality(listed) <= KEEP_LOCAL THEN {{}}
  ELSE { old \in SUBSET listed :
           /\ Cardinality(old) = Cardinality(listed) - KEEP_LOCAL
           /\ \A o \in old : \A k \in listed \ old :
                createdAtOf(store, o) <= createdAtOf(store, k) }

(* The removals of lines 300-304: the key is rebuilt from each createdAt *)
pruned(store, username, old) ==
  removeItems(store, {backupKey(username, createdAtOf(store, o)) : o \in old})

(* BackupManager.storeLocalBackup (lines 290-309): setItem under the key made *)
(* of backupId, then the pruning; a setItem that throws is caught and logged *)
storeLocalBackup(username, backupFile, backupId, quota) ==
  IF quota THEN backups' = backups
  ELSE LET stored == (backupKey(username, backupId) :> backupFile) @@ backups
       IN \E old \in oldBackupChoices(stored, username) :
            backups' = pruned(stored, username, old)

(* BackupManager.createBackup (lines 38-93) on a non-empty list.  createdAt is  *)
(* read from the clock at line 51 and the storage key at line 292: `elapsed`   *)
(* is what the clock advanced in between.                                      *)
createBackup(username, expenses, elapsed, quota, limit) ==
  /\ now + elapsed <= limit
  /\ now' = now + elapsed
  /\ storeLocalBackup(username,
       [json |-> TRUE] @@ BackupFile(username, expenses, toISOString(now)),
       now + elapsed, quota)

(* createBackup that looks at expenses.length only after the snapshot is stored *)
CreateBackupChecksLate(username, expenses, elapsed, quota, limit) ==
  IF expenses = <<>>
  THEN /\ elapsed = 0 /\ ~quota
       /\ storeLocalBackup(username,
            [json |-> TRUE, metadata |-> None, expenses |-> Some(<<>>),
             format |-> Some(BACKUP_FORMAT)], now, quota)
       /\ last' = [ op |-> "createBackup", user |-> username, arg |-> expenses,
                    out |-> [threw |-> TRUE, file |-> None] ]
       /\ UNCHANGED <<now, csv, csvBackup, csvMeta, schedules, timers>>
  ELSE /\ createBackup(username, expenses, elapsed, quota, limit)
       /\ last' = [ op |-> "createBackup", user |-> username, arg |-> expenses,
                    out |-> [ threw |-> FALSE,
                              file |-> Some([json |-> TRUE]
                                @@ BackupFile(username, expenses, toISOString(now))) ] ]
       /\ UNCHANGED <<csv, csvBackup, csvMeta, schedules, timers>>

(* createBackup(owner, records) as the settings page calls it *)
CreateBackup(username, expenses, elapsed, quota, limit) ==
  IF expenses = <<>>
  THEN /\ elapsed = 0 /\ ~quota
       /\ last' = [ op |-> "createBackup", user |-> username, arg |-> expenses,
                    out |-> [threw |-> TRUE, file |-> None] ]
       /\ UNCHANGED <<now, csv, csvBackup, csvMeta, backups, schedules, timers>>
  ELSE /\ createBackup(username, expenses, elapsed, quota, limit)
       /\ last' = [ op |-> "createBackup", user |-> username, arg |-> expenses,
                    out |-> [ threw |-> FALSE,
                              file |-> Some([json |-> TRUE]
                                @@ BackupFile(username, expenses, toISOString(now))) ] ]
       /\ UNCHANGED <<csv, csvBackup, csvMeta, schedules, timers>>

RestoreFailed(message) ==
  [success |-> FALSE, restoredCount |-> 0, errors |-> <<message>>, metadata |-> None]

(* Lines 128-135 without the validateExpense call: every Record is kept *)
validExpensesUnchecked(expenses) == expenses

(* The Records of lines 128-135 that validate, in order *)
validExpensesOf(expenses) == SelectSeq(expenses, restoreValidates)

(* The error list of lines 128-135: one message per Record that does not validate *)
restoreErrors(expenses) ==
  LET bad == {i \in 1..Len(expenses) : ~restoreValidates(expenses[i])}
      nth(k) == CHOOSE i \in bad : Cardinality({j \in bad : j < i}) = k - 1
  IN [k \in 1..Cardinality(bad) |-> RowError(nth(k), "Expense")]

(* The checks of restoreFromBackup with the zero-valid check of lines 137-139 *)
(* left out                                                                  *)
restoreRejectsUnlessEmpty(file) ==
  LET backupFile == file.body IN
  IF file.ext # "json" THEN <<"Backup files must be in JSON format">>
  ELSE IF ~backupFile.json THEN <<"Unexpected token">>
  ELSE IF backupFile.format # Some(BACKUP_FORMAT) THEN <<"Invalid backup file format">>
  ELSE IF backupFile.metadata = None \/ backupFile.expenses = None
    THEN <<"Corrupted backup file - missing required sections">>
  ELSE <<>>

(* The checks of restoreFromBackup (lines 101-139), in the order the code makes *)
(* them: the message of the first that throws, <<>> when none does              *)
restoreRejects(file) ==
  LET backupFile == file.body IN
  IF file.ext # "json" THEN <<"Backup files must be in JSON format">>
  ELSE IF ~backupFile.json THEN <<"Unexpected token">>
  ELSE IF backupFile.format # Some(BACKUP_FORMAT) THEN <<"Invalid backup file format">>
  ELSE IF backupFile.metadata = None \/ backupFile.expenses = None
    THEN <<"Corrupted backup file - missing required sections">>
  ELSE IF validExpensesOf(backupFile.expenses[1]) = <<>>
    THEN <<"No valid expenses found in backup file">>
  ELSE <<>>

(* The checksum comparison of restoreFromBackup (lines 118-122): what it logs *)
restoreWarnings(backupFile) ==
  IF backupFile.metadata[1].checksum # calculateChecksum(JSONstringify(backupFile.expenses[1]))
  THEN <<"Backup checksum mismatch - data may be corrupted">>
  ELSE <<>>

(* restoreFromBackup(owner, file): BackupManager.restoreFromBackup (lines 95-157) *)
RestoreFromBackup(username, file, fault) ==
  LET backupFile == file.body
      rejected == restoreRejects(file)
      validExpenses == validExpensesOf(backupFile.expenses[1])
  IN /\ IF rejected # <<>>
        THEN /\ fault = "none"
             /\ UNCHANGED <<csv, csvBackup, csvMeta>>
        ELSE saveExpenses(username, validExpenses, fault)
     /\ last' = [ op |-> "restoreFromBackup", user |-> username, arg |-> file,
                  fault |-> fault, prior |-> csv[getFileName(username)],
                  out |-> IF rejected # <<>> THEN RestoreFailed(rejected[1])
                          ELSE IF ~saveReturns(validExpenses, fault)
                          THEN RestoreFailed("Failed to save data")
                          ELSE [ success |-> TRUE,
                                 restoredCount |-> Len(validExpenses),
                                 errors |-> restoreErrors(backupFile.expenses[1]),
                                 metadata |-> backupFile.metadata ] ]
     /\ UNCHANGED <<now, backups, schedules, timers>>

(* restoreFromBackup(owner, snapshotId): BackupManager.restoreFromLocalBackup *)
(* (lines 187-204)                                                            *)
RestoreFromLocalBackup(username, backupId, fault) ==
  LET key == backupKey(username, backupId)
      found == key \in DOMAIN backups
      usable == found /\ backups[key].json /\ backups[key].expenses # None
  IN /\ IF usable
        THEN saveExpenses(username, backups[key].expenses[1], fault)
        ELSE /\ fault = "none"
             /\ UNCHANGED <<csv, csvBackup, csvMeta>>
     /\ last' = [ op |-> "restoreFromLocalBackup", user |-> username, arg |-> backupId,
                  fault |-> fault,
                  snapshot |-> IF found THEN Some(backups[key]) ELSE None,
                  prior |-> csv[getFileName(username)],
                  out |-> [ok |-> usable /\ saveReturns(backups[key].expenses[1], fault)] ]
     /\ UNCHANGED <<now, backups, schedules, timers>>

-----------------------------------------------------------------------------
(* The backup scheduler.  A Schedule is the record the settings page stores;   *)
(* a timer is a pending setTimeout callback: [user, fireAt].                   *)

(* Clock ticks in 24 hours *)
Day == 2

Frequencies == {"daily", "weekly", "monthly"}

(* The component's initial Schedule (AdvancedSettings, lines 259-265) *)
defaultSchedule ==
  [ enabled |-> FALSE, frequency |-> "weekly", lastBackup |-> None,
    nextBackup |-> None, retentionDays |-> 30 ]

(* calculateNextBackup that adds one day whatever the frequency *)
calculateNextBackupDaily(frequency, t) == t + Day

(* BackupManager.calculateNextBackup (lines 322-339), a month taken as 30 days *)
calculateNextBackup(frequency, t) ==
  IF frequency = "daily" THEN t + Day
  ELSE IF frequency = "weekly" THEN t + 7 * Day
  ELSE t + 30 * Day

Min(a, b) == IF a < b THEN a ELSE b

(* BackupManager.scheduleNextBackup (lines 311-320): the timers pending after it *)
scheduleNextBackup(pending, username, schedule, t) ==
  LET timeUntilBackup == calculateNextBackup(schedule.frequency, t) - t
  IN IF timeUntilBackup > 0
     THEN pending (+) SetToBag({[user |-> username, fireAt |-> t + Min(timeUntilBackup, Day)]})
     ELSE pending

(* BackupManager.setupAutoBackup (lines 206-217) at clock value t; a setItem   *)
(* that throws is caught and nothing is armed                                  *)
setupAutoBackup(pending, username, schedule, t, quota) ==
  IF quota THEN schedules' = schedules /\ timers' = pending
  ELSE /\ schedules' = [schedules EXCEPT ![username] = Some(schedule)]
       /\ timers' = IF schedule.enabled
                    THEN scheduleNextBackup(pending, username, schedule, t)
                    ELSE pending

(* BackupManager.getBackupSchedule (lines 219-229) *)
getBackupSchedule(username) == schedules[username]

(* handleScheduleChange (AdvancedSettings, lines 336-344): the page's Schedule *)
(* with the updates laid over it, handed to setupAutoBackup                    *)
SetupAutoBackup(username, enabled, frequency, quota) ==
  LET backupSchedule == IF getBackupSchedule(username) = None THEN defaultSchedule
                        ELSE getBackupSchedule(username)[1]
      newSchedule == [backupSchedule EXCEPT !.enabled = enabled, !.frequency = frequency]
  IN /\ setupAutoBackup(timers, username, newSchedule, now, quota)
     /\ last' = [ op |-> "setupAutoBackup", user |-> username, arg |-> newSchedule ]
     /\ UNCHANGED <<now, csv, csvBackup, csvMeta, backups>>

(* A pending timer fires: BackupManager.performScheduledBackup (lines 231-253) *)
TimerFire(timer, salt, elapsed, quota, limit) ==
  LET username == timer.user
      pending == timers (-) SetToBag({timer})
      expenses == loadExpenses(username, salt).expenses
      schedule == getBackupSchedule(username)
      updated == [schedule[1] EXCEPT
                    !.lastBackup = Some(toISOString(now + elapsed)),
                    !.nextBackup = Some(toISOString(
                       calculateNextBackup(schedule[1].frequency, now + elapsed)))]
  IN /\ BagIn(timer, timers)
     /\ timer.fireAt <= now
     /\ IF expenses = <<>>
        THEN /\ elapsed = 0 /\ ~quota
             /\ timers' = pending
             /\ UNCHANGED <<now, backups, schedules>>
        ELSE /\ createBackup(username, expenses, elapsed, quota, limit)
             /\ IF schedule = None
                THEN schedules' = schedules /\ timers' = pending
                ELSE setupAutoBackup(pending, username, updated, now + elapsed, FALSE)
     /\ last' = [ op |-> "performScheduledBackup", user |-> username, timer |-> timer,
                  quota |-> quota, out |-> [ok |-> expenses # <<>>] ]
     /\ UNCHANGED <<csv, csvBackup, csvMeta>>

-----------------------------------------------------------------------------
(* Age-based cleanup *)

(* backupDate <= cutoffDate in place of line 270 *)
expiredOrEqual(createdAt, cutoff) == createdAt # NaN /\ createdAt <= cutoff

(* backupDate < cutoffDate (line 270); an Invalid Date compares false *)
expired(createdAt, cutoff) == createdAt # NaN /\ createdAt < cutoff

(* keysToDelete with a prefix that leaves the user name out *)
keysToDeleteOfAnyUser(store, username, cutoff) ==
  { k \in DOMAIN store :
      \/ ~store[k].json
      \/ store[k].metadata = None
      \/ expired(createdAtOf(store, k), cutoff) }

(* keysToDelete of cleanupOldBackups (lines 261-278): reading metadata.createdAt *)
(* of an entry that is not JSON or has no metadata throws, and the catch block   *)
(* marks the key                                                                 *)
keysToDelete(store, username, cutoff) ==
  { k \in DOMAIN store :
      /\ k[1] = username
      /\ \/ ~store[k].json
         \/ store[k].metadata = None
         \/ expired(createdAtOf(store, k), cutoff) }

(* BackupManager.cleanupOldBackups (lines 255-288) *)
cleanupOldBackups(username, retentionDays) ==
  backups' = removeItems(backups, keysToDelete(backups, username, now - retentionDays * Day))

(* handleCleanupOldBackups (AdvancedSettings, lines 346-352) *)
CleanupOldBackups(username, retentionDays) ==
  /\ cleanupOldBackups(username, retentionDays)
  /\ last' = [ op |-> "cleanupOldBackups", user |-> username, arg |-> retentionDays,
               at |-> now, prior |-> backups ]
  /\ UNCHANGED <<now, csv, csvBackup, csvMeta, schedules, timers>>

-----------------------------------------------------------------------------
(* Deleting a user's data *)

(* CSVDataManager.deleteUserData (lines 694-710): the keys it removes *)
deleteUserData(username) ==
  LET f == getFileName(username)
  IN /\ csv' = [csv EXCEPT ![f] = None]
     /\ csvBackup' = [csvBackup EXCEPT ![f] = None]
     /\ csvMeta' = [csvMeta EXCEPT ![f] = None]

(* clearAllData (ExpenseContext, lines 250-270) *)
DeleteUserData(username) ==
  /\ deleteUserData(username)
  /\ last' = [ op |-> "deleteUserData", user |-> username, out |-> [ok |-> TRUE] ]
  /\ UNCHANGED <<now, backups, schedules, timers>>

-----------------------------------------------------------------------------
(* Bounds and inputs *)
MaxRecords == 2
SessionTime == 1
MaxCalls == 2

(* One more operation of a session that invokes at most n *)
Invoked(n) == calls < n /\ calls' = calls + 1

(* One more operation that is invoked on the storage core and leaves the       *)
(* provider's state alone                                                      *)
Called(n) == Invoked(n) /\ UNCHANGED context

Owner == "Saad"

rLunch ==
  [ id |-> <<"1">>, amount |-> 5, category |-> <<"Food & Groceries">>,
    description |-> <<"a", "b">>, date |-> PastDate ]
rTricky ==
  [ id |-> <<"2">>, amount |-> 7, category |-> <<"Transportation">>,
    description |-> <<"a", COMMA, QUOTE, NL, "b">>, date |-> PastDate ]
rFuture ==
  [ id |-> <<"3">>, amount |-> 5, category |-> <<"Food & Groceries">>,
    description |-> <<"a", "b">>, date |-> FutureDate ]
rNegative ==
  [ id |-> <<"4">>, amount |-> 0 - 5, category |-> <<"Food & Groceries">>,
    description |-> <<"a", "b">>, date |-> PastDate ]

RecordPool == {rLunch, rTricky, rFuture}

SeqsUpTo(S, n) == UNION {[1..k -> S] : k \in 0..n}

SaveInputs == SeqsUpTo(RecordPool, MaxRecords)

Salts == {"A", "B"}

Init ==
  /\ now = 0
  /\ csv = [f \in FileNames |-> None]
  /\ csvBackup = [f \in FileNames |-> None]
  /\ csvMeta = [f \in FileNames |-> None]
  /\ backups = <<>>
  /\ schedules = [u \in Users |-> None]
  /\ timers = EmptyBag
  /\ last = [op |-> "init"]
  /\ calls = 0
  /\ context = <<>>

(* Spec: one owner saves and reloads datasets *)
Next ==
  \/ Tick(SessionTime) /\ UNCHANGED <<calls, context>>
  \/ \E expenses \in SaveInputs, fault \in SaveFaults :
       Called(MaxCalls) /\ SaveExpenses(Owner, expenses, fault)

Spec == Init /\ [][Next]_vars

-----------------------------------------------------------------------------
(* SpecRestore: one owner saves a dataset and restores backup files over it *)
rTaxi ==
  [ id |-> <<"5">>, amount |-> 7, category |-> <<"Transportation">>,
    description |-> <<"a", "b">>, date |-> PastDate ]
rNoId ==
  [ id |-> <<>>, amount |-> 5, category |-> <<"Food & Groceries">>,
    description |-> <<"a", "b">>, date |-> PastDate ]

(* An uploaded file: its extension and what JSON.parse makes of its text *)
Upload(ext, json, metadata, expenses, format) ==
  [ ext |-> ext,
    body |-> [json |-> json, metadata |-> metadata, expenses |-> expenses,
              format |-> format] ]

MetadataOf(expenses) == Some(BackupMetadata(Owner, expenses, toISOString(0)))

WellFormed(expenses) ==
  Upload("json", TRUE, MetadataOf(expenses), Some(expenses), Some(BACKUP_FORMAT))

BackupFiles ==
  { WellFormed(<<rTaxi>>),
    WellFormed(<<rNegative, rTaxi, rNoId>>),
    WellFormed(<<rNegative>>),
    WellFormed(<<rNoId, rNegative>>),
    Upload("json", TRUE, MetadataOf(<<rTaxi>>), Some(<<>>), Some(BACKUP_FORMAT)),
    Upload("json", TRUE, MetadataOf(<<rTaxi>>), Some(<<rTaxi>>), Some("pak-kharcha-export")),
    Upload("json", TRUE, MetadataOf(<<rTaxi>>), Some(<<rTaxi>>), None),
    Upload("json", TRUE, None, Some(<<rTaxi>>), Some(BACKUP_FORMAT)),
    Upload("json", TRUE, MetadataOf(<<rTaxi>>), None, Some(BACKUP_FORMAT)),
    Upload("json", FALSE, None, None, None),
    Upload("txt", TRUE, MetadataOf(<<rTaxi>>), Some(<<rTaxi>>), Some(BACKUP_FORMAT)) }

RestoreFaults == {"none", "storageKey"}

NextRestore ==
  \/ Tick(SessionTime) /\ UNCHANGED <<calls, context>>
  \/ SaveExpenses(Owner, <<rLunch>>, "none") /\ UNCHANGED <<calls, context>>
  \/ \E file \in BackupFiles, fault \in RestoreFaults :
       RestoreFromBackup(Owner, file, fault) /\ UNCHANGED <<calls, context>>

SpecRestore == Init /\ [][NextRestore]_vars

-----------------------------------------------------------------------------
(* SpecSnapshot: one owner creates backups and restores from the downloaded   *)
(* file or from a local snapshot.  localStorage outlives the session: the     *)
(* store may already hold, under the owner's prefix, an entry that this       *)
(* version did not write.                                                     *)
foreignEntry ==
  [ json |-> TRUE, metadata |-> MetadataOf(<<rTaxi>>), expenses |-> Some(<<rTaxi>>),
    format |-> None ]

InitSnapshot ==
  /\ now = 0
  /\ csv = [f \in FileNames |-> None]
  /\ csvBackup = [f \in FileNames |-> None]
  /\ csvMeta = [f \in FileNames |-> None]
  /\ backups \in {<<>>, backupKey(Owner, 0) :> foreignEntry}
  /\ schedules = [u \in Users |-> None]
  /\ timers = EmptyBag
  /\ last = [op |-> "init"]
  /\ calls = 0
  /\ context = <<>>

(* A Record as load returns it for a row whose amount did not parse *)
rUnparsed == [rLunch EXCEPT !.id = <<"3">>, !.amount = NaN]

BackupInputs == {<<>>, <<rLunch>>, <<rTricky>>, <<rLunch, rTaxi>>, <<rUnparsed>>}

(* The file the last createBackup handed to the browser, if any *)
Downloaded ==
  IF last.op = "createBackup" /\ ~last.out.threw
  THEN {[ext |-> "json", body |-> last.out.file[1]]}
  ELSE {}

NextSnapshot ==
  \/ Tick(SessionTime) /\ UNCHANGED <<calls, context>>
  \/ \E expenses \in BackupInputs, elapsed \in {0, 1}, quota \in BOOLEAN :
       Called(MaxCalls) /\ CreateBackup(Owner, expenses, elapsed, quota, SessionTime)
  \/ \E file \in Downloaded :
       Called(MaxCalls) /\ RestoreFromBackup(Owner, file, "none")
  \/ \E backupId \in 0..SessionTime, fault \in RestoreFaults :
       Called(MaxCalls) /\ RestoreFromLocalBackup(Owner, backupId, fault)

SpecSnapshot == InitSnapshot /\ [][NextSnapshot]_vars

-----------------------------------------------------------------------------
(* SpecRetention: one owner creates backup after backup *)
NextRetention ==
  \/ Tick(MaxTime) /\ UNCHANGED <<calls, context>>
  \/ \E elapsed \in {0, 1}, quota \in BOOLEAN :
       CreateBackup(Owner, <<rLunch>>, elapsed, quota, MaxTime) /\ UNCHANGED <<calls, context>>

SpecRetention == Init /\ [][NextRetention]_vars

-----------------------------------------------------------------------------
(* SpecSchedule: one owner with a dataset changes the backup schedule while   *)
(* timers come due                                                            *)
MaxScheduleCalls == 4

NextSchedule ==
  \/ Tick(Day + SessionTime) /\ UNCHANGED <<calls, context>>
  \/ Called(MaxScheduleCalls) /\ SaveExpenses(Owner, <<rLunch>>, "none")
  \/ \E enabled \in BOOLEAN, frequency \in Frequencies, quota \in BOOLEAN :
       Called(MaxScheduleCalls) /\ SetupAutoBackup(Owner, enabled, frequency, quota)
  \/ \E timer \in BagToSet(timers), elapsed \in {0, 1}, quota \in BOOLEAN :
       Called(MaxScheduleCalls) /\ TimerFire(timer, "A", elapsed, quota, Day + SessionTime)

SpecSchedule == Init /\ [][NextSchedule]_vars

-----------------------------------------------------------------------------
(* SpecImport: one owner imports CSV files *)
csvLine(fields) == Join(fields, <<COMMA>>)

ImportRowPool ==
  { expenseToCSVRow(rLunch),
    expenseToCSVRow(rTaxi),
    csvLine(<< <<"1">>, <<"7">>, <<"Transportation">>, <<"a", "b">>, PastDate >>),
    csvLine(<< <<"3">>, <<"x">>, <<"Food & Groceries">>, <<"a", "b">>, PastDate >>),
    expenseToCSVRow(rNegative),
    expenseToCSVRow(rNoId),
    csvLine(<< <<"9">>, <<"5">> >>) }

ImportFile(rows) ==
  [ext |-> "csv", size |-> 1, content |-> Join(<<csvHeaderLine>> \o rows, <<NL>>)]

ImportFiles ==
  {ImportFile(rows) : rows \in SeqsUpTo(ImportRowPool, MaxRecords)}
    \cup { [ext |-> "csv", size |-> 1, content |-> expenseToCSVRow(rLunch)],
           [ext |-> "csv", size |-> 1, content |-> <<SP>>],
           [ext |-> "json", size |-> 1,
            content |-> ImportFile(<<expenseToCSVRow(rLunch)>>).content] }

NextImport ==
  \/ Tick(SessionTime) /\ UNCHANGED <<calls, context>>
  \/ \E file \in ImportFiles, fault \in RestoreFaults :
       Called(MaxCalls) /\ ImportUserData(Owner, file, "A", fault)

SpecImport == Init /\ [][NextImport]_vars

-----------------------------------------------------------------------------
(* SpecCleanup: one owner creates backups and cleans up by age.  The store    *)
(* may already hold entries that do not read as snapshots, and a snapshot of  *)
(* the other user.                                                            *)
garbageEntry == [json |-> FALSE, metadata |-> None, expenses |-> None, format |-> None]

noMetadataEntry ==
  [ json |-> TRUE, metadata |-> None, expenses |-> Some(<<rTaxi>>),
    format |-> Some(BACKUP_FORMAT) ]

Other == "Areeba"

usedStore ==
  (backupKey(Owner, 0 - 1) :> garbageEntry)
    @@ (backupKey(Owner, 0 - 2) :> noMetadataEntry)
    @@ (backupKey(Other, 0) :> ([json |-> TRUE] @@ BackupFile(Other, <<rTaxi>>, toISOString(0))))

InitCleanup ==
  /\ now = 0
  /\ csv = [f \in FileNames |-> None]
  /\ csvBackup = [f \in FileNames |-> None]
  /\ csvMeta = [f \in FileNames |-> None]
  /\ backups \in {<<>>, usedStore}
  /\ schedules = [u \in Users |-> None]
  /\ timers = EmptyBag
  /\ last = [op |-> "init"]
  /\ calls = 0
  /\ context = <<>>

RetentionInputs == {0, 1, 9999}

NextCleanup ==
  \/ Tick(Day) /\ UNCHANGED <<calls, context>>
  \/ \E elapsed \in {0, 1} :
       CreateBackup(Owner, <<rLunch>>, elapsed, FALSE, Day) /\ UNCHANGED <<calls, context>>
  \/ \E retentionDays \in RetentionInputs :
       CleanupOldBackups(Owner, retentionDays) /\ UNCHANGED <<calls, context>>

SpecCleanup == InitCleanup /\ [][NextCleanup]_vars

-----------------------------------------------------------------------------
(* SpecDelete: one owner saves, backs up, schedules, then deletes all data *)
NextDelete ==
  \/ Tick(SessionTime) /\ UNCHANGED <<calls, context>>
  \/ Called(MaxCalls) /\ SaveExpenses(Owner, <<rLunch>>, "none")
  \/ Called(MaxCalls) /\ CreateBackup(Owner, <<rLunch>>, 0, FALSE, SessionTime)
  \/ \E enabled \in BOOLEAN, frequency \in Frequencies :
       Called(MaxCalls) /\ SetupAutoBackup(Owner, enabled, frequency, FALSE)
  \/ Called(MaxCalls) /\ DeleteUserData(Owner)

SpecDelete == Init /\ [][NextDelete]_vars

-----------------------------------------------------------------------------
(* SpecOwners: the two users of the credential list work on the same storage *)
OwnersFile == ImportFile(<<expenseToCSVRow(rTaxi)>>)

NextOwners ==
  \/ Tick(SessionTime) /\ UNCHANGED <<calls, context>>
  \/ \E username \in Users :
       Called(MaxCalls) /\ SaveExpenses(username, <<rLunch>>, "none")
  \/ \E username \in Users :
       Called(MaxCalls) /\ ImportUserData(username, OwnersFile, "A", "none")
  \/ \E username \in Users :
       Called(MaxCalls) /\ CreateBackup(username, <<rLunch>>, 0, FALSE, SessionTime)
  \/ \E username \in Users :
       Called(MaxCalls) /\ RestoreFromBackup(username, WellFormed(<<rTaxi>>), "none")
  \/ \E username \in Users, backupId \in 0..SessionTime :
       Called(MaxCalls) /\ RestoreFromLocalBackup(username, backupId, "none")
  \/ \E username \in Users :
       Called(MaxCalls) /\ CleanupOldBackups(username, 0)
  \/ \E username \in Users, enabled \in BOOLEAN :
       Called(MaxCalls) /\ SetupAutoBackup(username, enabled, "daily", FALSE)
  \/ \E username \in Users :
       Called(MaxCalls) /\ DeleteUserData(username)

SpecOwners == Init /\ [][NextOwners]_vars


-----------------------------------------------------------------------------
(* SpecIdentity: one owner saves, imports and restores; the uploaded backup   *)
(* file may list two Records under one id.                                    *)
rRide ==
  [ id |-> <<"5">>, amount |-> 5, category |-> <<"Transportation">>,
    description |-> <<"b", "a">>, date |-> PastDate ]

IdentityFiles ==
  {WellFormed(<<rTaxi>>), WellFormed(<<rTaxi, rRide>>), WellFormed(<<rTaxi, rFuture>>)}

IdentityImports ==
  { ImportFile(<<expenseToCSVRow(rTaxi), expenseToCSVRow(rRide)>>),
    ImportFile(<<expenseToCSVRow(rLunch)>>) }

NextIdentity ==
  \/ Tick(SessionTime) /\ UNCHANGED <<calls, context>>
  \/ \E expenses \in {<<rLunch>>, <<rTaxi>>} :
       Called(MaxCalls) /\ SaveExpenses(Owner, expenses, "none")
  \/ \E file \in IdentityImports :
       Called(MaxCalls) /\ ImportUserData(Owner, file, "A", "none")
  \/ \E file \in IdentityFiles, fault \in RestoreFaults :
       Called(MaxCalls) /\ RestoreFromBackup(Owner, file, fault)

SpecIdentity == Init /\ [][NextIdentity]_vars


-----------------------------------------------------------------------------
(* SpecIntegrity: one owner saves and restores.  localStorage outlives the    *)
(* session: the metadata key may hold a text that does not parse.  The        *)
(* uploaded backup file may carry a checksum that is not that of its Records. *)
InitIntegrity ==
  /\ now = 0
  /\ csv = [f \in FileNames |-> None]
  /\ csvBackup = [f \in FileNames |-> None]
  /\ \E metadata \in {None, Some(unparsableMetadata)} :
       csvMeta = [f \in FileNames |-> IF f = getFileName(Owner) THEN metadata ELSE None]
  /\ backups = <<>>
  /\ schedules = [username \in Users |-> None]
  /\ timers = <<>>
  /\ last = [op |-> "init"]
  /\ calls = 0
  /\ context = <<>>

Tampered(expenses) ==
  Upload("json", TRUE,
         Some([BackupMetadata(Owner, expenses, toISOString(0))
                 EXCEPT !.checksum = @ + 1]),
         Some(expenses), Some(BACKUP_FORMAT))

IntegrityFiles ==
  { WellFormed(<<rTaxi>>), Tampered(<<rTaxi>>),
    WellFormed(<<rNoId>>), Tampered(<<rNoId, rLunch>>) }

NextIntegrity ==
  \/ Tick(SessionTime) /\ UNCHANGED <<calls, context>>
  \/ \E fault \in {"none", "metadataKey"} :
       SaveExpenses(Owner, <<rLunch>>, fault) /\ UNCHANGED <<calls, context>>
  \/ \E file \in IntegrityFiles :
       RestoreFromBackup(Owner, file, "none") /\ UNCHANGED <<calls, context>>

SpecIntegrity == InitIntegrity /\ [][NextIntegrity]_vars


-----------------------------------------------------------------------------
(* SpecImportFlag: one owner imports files that are recognized or not, small  *)
(* or too large, with valid rows or without, into a storage that may refuse   *)
(* the write.                                                                 *)
FlagFiles ==
  { ImportFile(<<expenseToCSVRow(rLunch)>>),
    ImportFile(<<expenseToCSVRow(rNegative), expenseToCSVRow(rTaxi)>>),
    ImportFile(<<expenseToCSVRow(rLunch), expenseToCSVRow(rLunch)>>),
    ImportFile(<<expenseToCSVRow(rNegative)>>),
    ImportFile(<<>>),
    ImportFile(<< csvLine(<< <<"3">>, <<"x">>, <<"Food & Groceries">>, <<"a", "b">>, PastDate >>),
                  csvLine(<< <<"4">>, <<"x">>, <<"Food & Groceries">>, <<"a", "b">>, PastDate >>) >>),
    [ImportFile(<<expenseToCSVRow(rLunch)>>) EXCEPT !.size = MAX_FILE_MB + 1],
    [ImportFile(<<expenseToCSVRow(rLunch)>>) EXCEPT !.ext = "json"],
    [ext |-> "csv", size |-> 1, content |-> expenseToCSVRow(rLunch)],
    [ext |-> "csv", size |-> 0, content |-> <<>>] }

NextImportFlag ==
  \/ Tick(SessionTime) /\ UNCHANGED <<calls, context>>
  \/ \E file \in FlagFiles, fault \in RestoreFaults :
       ImportUserData(Owner, file, "A", fault) /\ UNCHANGED <<calls, context>>

SpecImportFlag == Init /\ [][NextImportFlag]_vars


-----------------------------------------------------------------------------
(* SpecEmptyBackup: one owner saves, sets a schedule and asks for backups of  *)
(* an empty and of a non-empty record list.                                   *)
NextEmptyBackup ==
  \/ Tick(SessionTime) /\ UNCHANGED <<calls, context>>
  \/ SaveExpenses(Owner, <<rLunch>>, "none") /\ UNCHANGED <<calls, context>>
  \/ \E enabled \in BOOLEAN :
       Called(MaxCalls) /\ SetupAutoBackup(Owner, enabled, "daily", FALSE)
  \/ \E expenses \in {<<>>, <<rLunch>>} :
       CreateBackup(Owner, expenses, 0, FALSE, SessionTime) /\ UNCHANGED <<calls, context>>

SpecEmptyBackup == Init /\ [][NextEmptyBackup]_vars


-----------------------------------------------------------------------------
(* SpecContext: the logged-in owner adds expenses through the provider, one   *)
(* by one from the forms and two at a time from the sample data button.       *)
Unsaved(expense) == [k \in DOMAIN expense \ {"id"} |-> expense[k]]

SampleData == {<<Unsaved(rLunch), Unsaved(rTaxi)>>, <<Unsaved(rTaxi), Unsaved(rLunch)>>}

NextContext ==
  \/ Tick(SessionTime) /\ UNCHANGED <<calls, context>>
  \/ \E salt \in Salts : Invoked(MaxCalls) /\ LoadUserExpenses(Owner, salt)
  \/ \E expense \in {Unsaved(rLunch), Unsaved(rTaxi)}, fault \in {"none", "storageKey"} :
       Invoked(MaxCalls) /\ AddExpense(Owner, expense, "A", fault)
  \/ \E sampleData \in SampleData :
       Invoked(MaxCalls) /\ HandleAddSampleData(Owner, sampleData, "B")

SpecContext == Init /\ [][NextContext]_vars


-----------------------------------------------------------------------------
(* SpecLocalRestore: one owner saves, creates backups of record lists that    *)
(* the restore validator accepts in whole, in part or not at all, and         *)
(* restores from a local snapshot.                                            *)
LocalBackupInputs == {<<rLunch>>, <<rNegative>>, <<rNegative, rTaxi>>}

NextLocalRestore ==
  \/ Tick(SessionTime) /\ UNCHANGED <<calls, context>>
  \/ SaveExpenses(Owner, <<rLunch>>, "none") /\ UNCHANGED <<calls, context>>
  \/ \E expenses \in LocalBackupInputs :
       CreateBackup(Owner, expenses, 0, FALSE, SessionTime) /\ UNCHANGED <<calls, context>>
  \/ \E backupId \in 0..SessionTime :
       RestoreFromLocalBackup(Owner, backupId, "none") /\ UNCHANGED <<calls, context>>

SpecLocalRestore == Init /\ [][NextLocalRestore]_vars


-----------------------------------------------------------------------------
(* SpecFire: one owner with a dataset enables a schedule and its timers come  *)
(* due                                                                        *)
NextFire ==
  \/ Tick(Day + SessionTime) /\ UNCHANGED <<calls, context>>
  \/ SaveExpenses(Owner, <<rLunch>>, "none") /\ UNCHANGED <<calls, context>>
  \/ \E frequency \in Frequencies :
       Called(MaxCalls) /\ SetupAutoBackup(Owner, TRUE, frequency, FALSE)
  \/ \E timer \in BagToSet(timers), elapsed \in {0, 1}, quota \in BOOLEAN :
       Called(MaxCalls) /\ TimerFire(timer, "A", elapsed, quota, Day + SessionTime)

SpecFire == Init /\ [][NextFire]_vars

-----------------------------------------------------------------------------
(* The field validators of the Record model, at clock value t *)
FieldsValid(e, t) ==
  /\ e.id # <<>>
  /\ e.amount \notin {NaN, NullAmount}
  /\ e.amount > 0
  /\ e.amount <= MaxAmount
  /\ e.category \in validCategories
  /\ Len(e.description) >= MinDescription
  /\ Len(e.description) <= MaxDescription
  /\ DateGetTime(e.date) # NaN
  /\ DateGetTime(e.date) <= t

AllValid(expenses, t) == \A i \in 1..Len(expenses) : FieldsValid(expenses[i], t)

Saved == last.op = "saveExpenses" /\ last.out.ok

(* C1: after save(owner, D) of a Dataset whose Records all pass the field      *)
(* validators, load(owner) returns D: same length, same order, every Record    *)
(* equal field by field.                                                       *)
C1_RoundTrip ==
  (Saved /\ AllValid(last.arg, now))
    => \A salt \in Salts : loadExpenses(last.user, salt).expenses = last.arg

(* C2: a valid Record whose description holds a comma, a double quote and a    *)
(* newline comes back from load after save as exactly one Record, its          *)
(* description unchanged.                                                      *)
HasAllSpecials(e) ==
  HasUnit(e.description, COMMA) /\ HasUnit(e.description, QUOTE) /\ HasUnit(e.description, NL)

C2_EscapingSurvives ==
  (Saved /\ AllValid(last.arg, now))
    => \A i \in 1..Len(last.arg) :
         HasAllSpecials(last.arg[i]) =>
           LET loaded == loadExpenses(last.user, "A").expenses
               same == {j \in 1..Len(loaded) : loaded[j].id = last.arg[i].id}
           IN /\ Cardinality(same) = Cardinality({j \in 1..Len(last.arg) : last.arg[j].id = last.arg[i].id})
              /\ \A j \in same : loaded[j].description = last.arg[i].description

(* C3: every Record stored under an owner's dataset key passes all field       *)
(* validators, and the direct-save path rejects a Record that does not.        *)
storedRows(f) ==
  IF ~hasData(f) THEN <<>>
  ELSE LET lines == Split(csv[f][1])
       IN SelectSeq([i \in 1..Len(lines) |-> Trim(lines[i])],
                    LAMBDA line : line # <<>> /\ Head(line) # HASH
                                  /\ line # csvHeaderLine
                                  /\ Len(Tokenize(line)) = REQUIRED_FIELDS)

C3_PersistedValid ==
  \A f \in FileNames : \A i \in 1..Len(storedRows(f)) :
    FieldsValid(Candidate(Tokenize(storedRows(f)[i]), i, "A"), now)

(* C8: a save during which a storage write fails leaves the dataset text and   *)
(* its metadata exactly as they were.                                          *)
C8_SaveFailureClean ==
  [][(last'.op = "saveExpenses" /\ ~last'.out.ok) => (csv' = csv /\ csvMeta' = csvMeta)]_vars

(* C4: restoreFromBackup on a backup file in which no Record passes the        *)
(* restore's validation returns success = false with restoredCount = 0 and     *)
(* writes nothing: the owner's dataset, its backup copy and its metadata are   *)
(* what they were before the call.                                             *)
ZeroValid(file) ==
  /\ file.body.json
  /\ file.body.expenses # None
  /\ validExpensesOf(file.body.expenses[1]) = <<>>

Untagged(body) ==
  /\ body.json
  /\ \/ body.format # Some(BACKUP_FORMAT)
     \/ body.metadata = None
     \/ body.expenses = None

C5_FormatDiscriminator ==
  [][/\ (last'.op = "restoreFromBackup" /\ Untagged(last'.arg.body))
          => (~last'.out.success /\ csv' = csv)
     /\ (last'.op = "restoreFromLocalBackup" /\ last'.snapshot # None
           /\ Untagged(last'.snapshot[1]))
          => (~last'.out.ok /\ csv' = csv)]_vars

(* C6: whatever createBackup calls were made, at most 5 local snapshots are    *)
(* stored for the owner.                                                       *)
C6_RetentionCap == Cardinality(localKeys(Owner)) <= KEEP_LOCAL

(* C7: when a timer fires for an owner whose Schedule has been set to          *)
(* enabled = false, the fire is a no-op: no snapshot is created, the Schedule  *)
(* (lastBackup, nextBackup) is unchanged and no further timer is armed.        *)
C7_CancelledFireIsNoOp ==
  [][(/\ calls' # calls
      /\ last'.op = "performScheduledBackup"
      /\ schedules[last'.user] # None
      /\ ~schedules[last'.user][1].enabled)
       => /\ backups' = backups
          /\ schedules' = schedules
          /\ timers' = timers (-) SetToBag({last'.timer})]_vars

(* C9: when the file createBackup(owner, R) produced for a non-empty list R of *)
(* valid Records has been restored, unmodified, into an empty dataset,         *)
(* load(owner) yields the Records of R, each equal to its original in every    *)
(* field.                                                                      *)
C9_BackupRestoreRoundTrip ==
  (/\ last.op = "restoreFromBackup" /\ last.fault = "none" /\ last.arg.ext = "json"
   /\ last.prior = None
   /\ last.arg.body.json
   /\ last.arg.body.metadata # None /\ last.arg.body.expenses # None
   /\ last.arg.body.expenses[1] # <<>>
   /\ AllValid(last.arg.body.expenses[1], now)
   /\ last.arg.body = [json |-> TRUE]
        @@ BackupFile(last.user, last.arg.body.expenses[1],
                      last.arg.body.metadata[1].createdAt))
    => loadExpenses(last.user, "A").expenses = last.arg.body.expenses[1]

(* C10: an import file with N data rows, M of them invalid and K duplicates of *)
(* an already accepted row, M + K < N, is imported with success = true,        *)
(* importedCount = N - M - K, skippedCount = M + K and at least M + K errors,  *)
(* and the dataset afterwards holds exactly the accepted Records.              *)
RowValid(line, t) ==
  LET fields == Tokenize(line) IN
  /\ Len(fields) = REQUIRED_FIELDS
  /\ fields[1] # <<>>
  /\ ParseFloat(fields[2]) # NaN
  /\ FieldsValid(Candidate(fields, 0, "A"), t)

RECURSIVE Tally(_, _, _, _)
Tally(lines, i, t, acc) ==
  IF i > Len(lines) THEN acc
  ELSE IF ~IsDataLine(lines[i]) THEN Tally(lines, i + 1, t, acc)
  ELSE LET line == Trim(lines[i])
           counted == [acc EXCEPT !.N = @ + 1]
       IN Tally(lines, i + 1, t,
            IF ~RowValid(line, t) THEN [counted EXCEPT !.M = @ + 1]
            ELSE IF isDuplicate(acc.accepted, Candidate(Tokenize(line), 0, "A"))
            THEN [counted EXCEPT !.K = @ + 1]
            ELSE [counted EXCEPT !.accepted = Append(@, Candidate(Tokenize(line), 0, "A"))])

C10_PartialImportCounts ==
  (last.op = "importUserData" /\ last.fault = "none" /\ last.arg.ext = "csv"
     /\ FindImportHeader(Split(last.arg.content), 1) > 0)
    => LET lines == Split(last.arg.content)
           tally == Tally(lines, FindImportHeader(lines, 1) + 1, now,
                          [N |-> 0, M |-> 0, K |-> 0, accepted |-> <<>>])
       IN tally.M + tally.K < tally.N
            => /\ last.out.success
               /\ last.out.importedCount = tally.N - tally.M - tally.K
               /\ last.out.skippedCount = tally.M + tally.K
               /\ Len(last.out.errors) >= tally.M + tally.K
               /\ loadExpenses(last.user, "A").expenses = tally.accepted

(* C11: on import and on decode a row is accepted if and only if every field   *)
(* validator passes on its parsed fields: id non-empty, amount a number with   *)
(* 0 < amount <= 10,000,000, category of the enumerated set, description of    *)
(* 2 to 200 characters, date valid and not after today.                        *)
C11_AcceptedIffValid ==
  (last.op = "importUserData" /\ last.arg.ext = "csv"
     /\ FindImportHeader(Split(last.arg.content), 1) > 0)
    => LET lines == Split(last.arg.content)
       IN \A i \in (FindImportHeader(lines, 1) + 1)..Len(lines) :
            IsDataLine(lines[i])
              => ((csvRowToExpense(Trim(lines[i]), i, "A", now).expense # NoExpense)
                    <=> RowValid(Trim(lines[i]), now))

Removable(entry, cutoff) ==
  \/ ~entry.json
  \/ entry.metadata = None
  \/ /\ getTime(entry.metadata[1].createdAt) # NaN
     /\ getTime(entry.metadata[1].createdAt) < cutoff

C13_DeleteAllComplete ==
  (last.op = "deleteUserData" /\ last.out.ok)
    => /\ csv[getFileName(last.user)] = None
       /\ csvMeta[getFileName(last.user)] = None
       /\ loadExpenses(last.user, "A").expenses = <<>>
       /\ listedKeys(backups, last.user) = {}
       /\ localKeys(last.user) = {}
       /\ getBackupSchedule(last.user) = None

(* C14: an operation invoked for one owner leaves every storage key of the     *)
(* other owner as it was: dataset, dataset backup, metadata, local snapshots   *)
(* and schedule.                                                               *)
KeysOf(username) ==
  << csv[getFileName(username)], csvBackup[getFileName(username)],
     csvMeta[getFileName(username)],
     [k \in localKeys(username) |-> backups[k]],
     schedules[username] >>

C14_OwnerIsolation ==
  [][\A username \in Users :
       (last'.op # "init" /\ last'.user # username)
         => KeysOf(username)' = KeysOf(username)]_vars

(* An owner with a dataset, or a snapshot, or a schedule of their own, saw the *)
(* other owner's operation change that owner's keys                            *)
C14_Witness ==
  /\ last.op \in {"saveExpenses", "deleteUserData", "cleanupOldBackups",
                  "restoreFromBackup", "importUserData"}
  /\ calls = MaxCalls
  /\ \E username \in Users :
       /\ username # last.user
       /\ \/ hasData(getFileName(username))
          \/ localKeys(username) # {}
          \/ schedules[username] # None

(* C15: in every persisted Dataset no two Records share an id.                 *)
idsOf(expenses) == [i \in 1..Len(expenses) |-> expenses[i].id]

C15_UniqueIds ==
  \A username \in Users :
    LET ids == idsOf(loadExpenses(username, "A").expenses)
    IN \A i, j \in 1..Len(ids) : ids[i] = ids[j] => i = j

(* C16: the Records load returns for a stored dataset text are the same        *)
(* whether the stored metadata checksum matches, mismatches, is absent or does *)
(* not parse; and a restore from a file returns the same success flag, count   *)
(* and errors, and commits the same Records, whether or not metadata.checksum  *)
(* equals the checksum recomputed from the file's Records.                     *)
MetadataCases(f) ==
  LET sealed == [ version |-> CSV_VERSION, username |-> Owner,
                  lastSaved |-> toISOString(now), expenseCount |-> 1,
                  checksum |-> calculateChecksum(csv[f][1]) ]
  IN { None, Some(unparsableMetadata), Some(sealed),
       Some([sealed EXCEPT !.checksum = @ + 1]) }

Resealed(file) ==
  [file EXCEPT !.body.metadata =
     Some([@[1] EXCEPT !.checksum =
             calculateChecksum(JSONstringify(file.body.expenses[1]))])]

C16_WarnOnly ==
  /\ \A f \in FileNames :
       hasData(f) =>
         \A metadata \in MetadataCases(f) :
           loadStored(csv[f], metadata, "A", now) = Decode(csv[f][1], "A", now)
  /\ last.op = "restoreFromBackup" =>
       LET twin == Resealed(last.arg)
           valid == validExpensesOf(twin.body.expenses[1])
       IN /\ last.out.success = (restoreRejects(twin) = <<>>)
          /\ last.out.success =>
               /\ last.out.restoredCount = Len(valid)
               /\ last.out.errors = restoreErrors(twin.body.expenses[1])
               /\ storedRows(getFileName(last.user))
                    = [i \in 1..Len(valid) |-> expenseToCSVRow(valid[i])]

(* A restore from a file whose checksum is not that of its Records succeeded,  *)
(* and the dataset it wrote is there to be loaded                              *)
C16_Witness ==
  /\ last.op = "restoreFromBackup"
  /\ restoreWarnings(last.arg.body) # <<>>
  /\ last.out.success
  /\ loadExpenses(last.user, "A").expenses # <<>>

(* C17, as the spec states it: importUserData returns success = false only     *)
(* when no row of the file is valid or the file is not recognized (wrong file  *)
(* type, empty, no column-header line).                                        *)
Recognized(file) ==
  /\ file.ext = "csv"
  /\ Trim(file.content) # <<>>
  /\ FindImportHeader(Split(file.content), 1) > 0

ValidRows(file, t) ==
  LET lines == Split(file.content)
  IN { i \in (FindImportHeader(lines, 1) + 1)..Len(lines) :
         IsDataLine(lines[i]) /\ RowValid(Trim(lines[i]), t) }

C17_FalseOnlyWhenNothingValid ==
  (last.op = "importUserData" /\ ~last.out.success)
    => ~Recognized(last.arg) \/ ValidRows(last.arg, now) = {}

(* C17, amended: importUserData always returns a result; success = false only  *)
(* when no row is valid, or the file is not recognized, or the file is larger  *)
(* than the size limit, or the storage refused the write; a recognized file    *)
(* within the size limit with at least one valid row, written to a storage     *)
(* that accepts it, gives success = true.                                      *)
C17_SuccessFlag ==
  last.op = "importUserData" =>
    /\ DOMAIN last.out = {"success", "importedCount", "skippedCount", "errors"}
    /\ ~last.out.success =>
         \/ ~Recognized(last.arg)
         \/ ValidRows(last.arg, now) = {}
         \/ last.arg.size > MAX_FILE_MB
         \/ last.fault # "none"
    /\ ( /\ Recognized(last.arg)
         /\ ValidRows(last.arg, now) # {}
         /\ last.arg.size <= MAX_FILE_MB
         /\ last.fault = "none" ) => last.out.success

(* A recognized file with a valid row was refused by the storage *)
C17_Witness ==
  /\ last.op = "importUserData"
  /\ Recognized(last.arg)
  /\ ValidRows(last.arg, now) # {}
  /\ last.arg.size <= MAX_FILE_MB
  /\ last.fault # "none"
  /\ ~last.out.success

(* C18: createBackup of an empty record list fails with an error, hands no     *)
(* file to the download, stores no snapshot and leaves every storage key as it *)
(* was.                                                                        *)
C18_EmptyBackupRejected ==
  [][(last'.op = "createBackup" /\ last'.arg = <<>>)
       => /\ last'.out.threw
          /\ last'.out.file = None
          /\ UNCHANGED <<csv, csvBackup, csvMeta, backups, schedules>>]_vars

(* An empty list was refused while a dataset, a snapshot and a schedule were   *)
(* in storage                                                                  *)
C18_Witness ==
  /\ last.op = "createBackup"
  /\ last.arg = <<>>
  /\ last.out.threw
  /\ hasData(getFileName(Owner))
  /\ localKeys(Owner) # {}
  /\ schedules[Owner] # None

(* C19: when two addExpense calls are issued in one session and both complete, *)
(* the persisted Dataset holds both added Records.                             *)
C19_NoLostUpdate ==
  last.op = "handleAddSampleData" =>
    LET ids == idsOf(loadExpenses(last.user, "A").expenses)
    IN \A i \in 1..Len(last.added) :
         \E j \in 1..Len(ids) : ids[j] = last.added[i].id

(* C20: restoreFromLocalBackup commits only the Records of the stored snapshot *)
(* that pass the restore validator; when none passes it reports failure and    *)
(* leaves the existing dataset as it was.                                      *)
C20_LocalRestoreValidates ==
  (last.op = "restoreFromLocalBackup" /\ last.snapshot # None)
    => LET f == getFileName(last.user)
           valid == validExpensesOf(last.snapshot[1].expenses[1])
       IN IF valid = <<>>
          THEN ~last.out.ok /\ csv[f] = last.prior
          ELSE last.out.ok
                 => storedRows(f) = [i \in 1..Len(valid) |-> expenseToCSVRow(valid[i])]

(* C21: restoreFromBackup of a well-formed backup with V >= 1 valid and I       *)
(* invalid Records returns success = true, restoredCount = V and exactly I      *)
(* errors, and what it commits is the serialization of exactly the valid        *)
(* Records in their original order, whatever the dataset was before.            *)
PassingRecords(expenses) == SelectSeq(expenses, restoreValidates)

IsWellFormed(file) ==
  /\ file.ext = "json"
  /\ file.body.json
  /\ file.body.format = Some(BACKUP_FORMAT)
  /\ file.body.metadata # None
  /\ file.body.expenses # None

DataRows(content) ==
  LET lines == Split(content)
      start == FindHeader(lines, 1)
  IN SelectSeq([i \in 1..(Len(lines) - start) |-> Trim(lines[start + i])],
               LAMBDA line : line # <<>> /\ Head(line) # HASH)

C22_DecodeKeepsValidRows ==
  \A username \in Users :
    hasData(getFileName(username)) =>
      LET rows == DataRows(csv[getFileName(username)][1])
          valid == SelectSeq(rows, LAMBDA line : RowValid(line, now))
          loaded == loadExpenses(username, "A")
      IN /\ loaded.expenses = [i \in 1..Len(valid) |-> Candidate(Tokenize(valid[i]), i, "A")]
         /\ Len(loaded.errors) >= Len(rows) - Len(valid)

(* C23: the dataset a successful import commits holds no two Records with the  *)
(* same id and no two Records with the same (amount, category, description,    *)
(* date).                                                                      *)
C23_NoDuplicatesCommitted ==
  (last.op = "importUserData" /\ last.out.success)
    => LET rows == DataRows(csv[getFileName(last.user)][1])
           fields == [i \in 1..Len(rows) |-> Tokenize(rows[i])]
       IN \A i, j \in 1..Len(rows) :
            i < j => /\ fields[i][1] # fields[j][1]
                     /\ SubSeq(fields[i], 2, 5) # SubSeq(fields[j], 2, 5)

(* C24: when an armed timer fires while the Schedule is enabled, the dataset   *)
(* is not empty and the storage accepts the snapshot, exactly one snapshot is  *)
(* created, the Schedule gets lastBackup = the time of the fire and            *)
(* nextBackup = that time plus one interval of its frequency, and a new timer  *)
(* with delay min(interval, 24 hours) is armed.                                *)
Interval(frequency) ==
  CASE frequency = "daily" -> Day
    [] frequency = "weekly" -> 7 * Day
    [] frequency = "monthly" -> 30 * Day

Consistent(snapshot) ==
  /\ snapshot.metadata[1].checksum
       = calculateChecksum(JSONstringify(snapshot.expenses[1]))
  /\ snapshot.metadata[1].expenseCount = Len(snapshot.expenses[1])

C25_SnapshotChecksum ==
  /\ (last.op = "createBackup" /\ ~last.out.threw) => Consistent(last.out.file[1])
  /\ \A k \in DOMAIN backups :
       backups[k].format = Some(BACKUP_FORMAT) => Consistent(backups[k])
  /\ last.op = "restoreFromBackup" => restoreWarnings(last.arg.body) = <<>>

(* The file of a backup of two Records was restored unmodified while the       *)
(* snapshot is in storage                                                      *)
C25_Witness ==
  /\ last.op = "restoreFromBackup"
  /\ last.out.success
  /\ Len(last.arg.body.expenses[1]) = 2
  /\ \E k \in localKeys(last.user) : backups[k].format = Some(BACKUP_FORMAT)

(* C26: there is never more than one armed, not yet fired backup timer for the *)
(* same owner.                                                                 *)
PendingFor(username) ==
  LET own == {timer \in BagToSet(timers) : timer.user = username}
  IN BagCardinality([timer \in own |-> CopiesIn(timer, timers)])

C26_OneTimerPerOwner == \A username \in Users : PendingFor(username) <= 1

(* C27: a timer fire creates a snapshot only once a full interval of the       *)
(* Schedule's frequency has passed since the timer was armed.                  *)
C27_NoEarlyBackup ==
  [][(/\ calls' # calls
      /\ last'.op = "performScheduledBackup"
      /\ backups' # backups
      /\ schedules[last'.user] # None)
       => LET interval == Interval(schedules[last'.user][1].frequency)
              armedAt == last'.timer.fireAt - Min(interval, Day)
          IN now >= armedAt + interval]_vars

(* C28: while the owner's Schedule stays enabled, a backup timer is armed      *)
(* after every fire, also after one that found the dataset empty.              *)
C28_TimerStaysArmed ==
  (/\ last.op = "performScheduledBackup"
   /\ schedules[last.user] # None
   /\ schedules[last.user][1].enabled)
    => PendingFor(last.user) >= 1

(* C29: every snapshot listed for the owner is stored under the key derived *)
(* from its own Metadata, backup-<owner>-<epoch ms of createdAt>, so that   *)
(* restoring by that id and pruning reach that very snapshot.               *)
C29_ListedAddressable ==
  \A k \in listedKeys(backups, Owner) :
    backupKey(Owner, createdAtOf(backups, k)) = k

(* C30: every Record restoreFromBackup accepts and commits is accepted by the *)
(* decoder on the next load: after a successful restore, load(owner) returns  *)
(* exactly restoredCount Records.                                             *)
C30_RestoreAgreesWithLoad ==
  (last.op = "restoreFromBackup" /\ last.out.success)
    => Len(loadExpenses(last.user, "A").expenses) = last.out.restoredCount

====
